---------------------------- MODULE Spec2Model ----------------------------
(***************************************************************************)
(* Model of the AMM exchange simulator of src/src/backtester.py (classes   *)
(* LPToken, AMM, DEXBacktester) and its risk gate src/src/fork_detector.py *)
(* (ForkDetector).                                                         *)
(*                                                                         *)
(* Numbers.  The program computes with Python floats.  The model computes  *)
(* with exact rationals - the arithmetic the floats approximate - so the   *)
(* rounding error of IEEE doubles is outside the model.  The numerators    *)
(* and denominators outgrow TLC's 32-bit integers after two swaps (the fee *)
(* factors are 997/1000 and 9999/10000), so a natural number is a tuple of *)
(* base-10000 limbs, least significant first, without leading zero limbs.  *)
(***************************************************************************)
EXTENDS Integers, Sequences, FiniteSets, TLC

----------------------------------------------------------------------------
(* Natural numbers of any size: tuples of limbs.                           *)

Base == 10000

Limb(a, i) == IF i <= Len(a) THEN a[i] ELSE 0

RECURSIVE NatTrim(_)
NatTrim(a) ==
    IF a = <<>> THEN a
    ELSE IF a[Len(a)] = 0 THEN NatTrim(SubSeq(a, 1, Len(a) - 1))
    ELSE a

RECURSIVE NatOfInt(_)
NatOfInt(n) == IF n = 0 THEN <<>> ELSE <<n % Base>> \o NatOfInt(n \div Base)

RECURSIVE NatAddC(_, _, _, _)
NatAddC(a, b, i, c) ==
    IF i > Len(a) /\ i > Len(b)
    THEN (IF c = 0 THEN <<>> ELSE <<c>>)
    ELSE LET s == Limb(a, i) + Limb(b, i) + c
         IN  <<s % Base>> \o NatAddC(a, b, i + 1, s \div Base)

NatAdd(a, b) == NatAddC(a, b, 1, 0)

RECURSIVE NatSubB(_, _, _, _)
NatSubB(a, b, i, br) ==
    IF i > Len(a) THEN <<>>
    ELSE LET d == a[i] - Limb(b, i) - br
         IN  IF d < 0 THEN <<d + Base>> \o NatSubB(a, b, i + 1, 1)
                      ELSE <<d>> \o NatSubB(a, b, i + 1, 0)

\* a - b for a >= b
NatSub(a, b) == NatTrim(NatSubB(a, b, 1, 0))

RECURSIVE NatCmpAt(_, _, _)
NatCmpAt(a, b, i) ==
    IF i = 0 THEN 0
    ELSE IF a[i] # b[i] THEN (IF a[i] < b[i] THEN -1 ELSE 1)
    ELSE NatCmpAt(a, b, i - 1)

\* -1, 0, 1 as a < b, a = b, a > b
NatCmp(a, b) ==
    IF Len(a) # Len(b) THEN (IF Len(a) < Len(b) THEN -1 ELSE 1)
    ELSE NatCmpAt(a, b, Len(a))

RECURSIVE NatMulLimbC(_, _, _, _)
NatMulLimbC(a, m, i, c) ==
    IF i > Len(a)
    THEN (IF c = 0 THEN <<>> ELSE <<c>>)
    ELSE LET p == a[i] * m + c
         IN  <<p % Base>> \o NatMulLimbC(a, m, i + 1, p \div Base)

RECURSIVE NatMulAt(_, _, _)
NatMulAt(a, b, j) ==
    IF j > Len(b) THEN <<>>
    ELSE NatAdd(NatMulLimbC(a, b[j], 1, 0), <<0>> \o NatMulAt(a, b, j + 1))

NatMul(a, b) ==
    IF a = <<>> \/ b = <<>> THEN <<>>
    ELSE IF Len(b) <= Len(a) THEN NatTrim(NatMulAt(a, b, 1))
    ELSE NatTrim(NatMulAt(b, a, 1))

\* the value of a natural of at most two limbs as an integer
NatSmall(a) == Limb(a, 1) + Base * Limb(a, 2)

RECURSIVE Gcd(_, _)
Gcd(m, n) == IF n = 0 THEN m ELSE Gcd(n, m % n)

----------------------------------------------------------------------------
(* Rationals s * n / d: s the sign (-1, 0, 1), n and d naturals, d > 0.    *)
(* A value whose numerator and denominator both fit two limbs is kept in   *)
(* lowest terms; larger ones are kept as computed, so two values are       *)
(* compared with RatEq and RatLt, never with =.                            *)

RatNorm(s, n, d) ==
    IF n = <<>> THEN [s |-> 0, n |-> <<>>, d |-> <<1>>]
    ELSE IF Len(n) <= 2 /\ Len(d) <= 2
    THEN LET g == Gcd(NatSmall(n), NatSmall(d))
         IN  [s |-> s, n |-> NatOfInt(NatSmall(n) \div g),
              d |-> NatOfInt(NatSmall(d) \div g)]
    ELSE [s |-> s, n |-> n, d |-> d]

\* the rational of the integer i
R(i) == IF i < 0 THEN [s |-> -1, n |-> NatOfInt(-i), d |-> <<1>>]
        ELSE IF i = 0 THEN [s |-> 0, n |-> <<>>, d |-> <<1>>]
        ELSE [s |-> 1, n |-> NatOfInt(i), d |-> <<1>>]

\* the rational p / q of two integers, q > 0
Frac(p, q) == IF p < 0 THEN RatNorm(-1, NatOfInt(-p), NatOfInt(q))
              ELSE RatNorm(IF p = 0 THEN 0 ELSE 1, NatOfInt(p), NatOfInt(q))

Zero == R(0)
One == R(1)

RatNeg(x) == [s |-> -x.s, n |-> x.n, d |-> x.d]

\* the sum of the signed naturals s1 * n1 and s2 * n2, over denominator d
SignedSum(s1, n1, s2, n2, d) ==
    IF s1 = 0 THEN RatNorm(s2, n2, d)
    ELSE IF s2 = 0 THEN RatNorm(s1, n1, d)
    ELSE IF s1 = s2 THEN RatNorm(s1, NatAdd(n1, n2), d)
    ELSE LET c == NatCmp(n1, n2)
         IN  IF c = 0 THEN Zero
             ELSE IF c > 0 THEN RatNorm(s1, NatSub(n1, n2), d)
             ELSE RatNorm(s2, NatSub(n2, n1), d)

RatAdd(x, y) ==
    IF x.d = y.d THEN SignedSum(x.s, x.n, y.s, y.n, x.d)
    ELSE SignedSum(x.s, NatMul(x.n, y.d), y.s, NatMul(y.n, x.d), NatMul(x.d, y.d))

RatSub(x, y) == RatAdd(x, RatNeg(y))

RatMul(x, y) ==
    IF x.s = 0 \/ y.s = 0 THEN Zero
    ELSE RatNorm(x.s * y.s, NatMul(x.n, y.n), NatMul(x.d, y.d))

\* x / y for y # 0
RatDiv(x, y) ==
    IF x.s = 0 THEN Zero
    ELSE RatNorm(x.s * y.s, NatMul(x.n, y.d), NatMul(x.d, y.n))

RatSign(x) == x.s

RatLt(x, y) == RatSign(RatSub(x, y)) < 0
RatLe(x, y) == RatSign(RatSub(x, y)) <= 0
RatEq(x, y) == RatSign(RatSub(x, y)) = 0
RatMin(x, y) == IF RatLt(y, x) THEN y ELSE x


\* math.sqrt of x >= 0.  The amounts of the model are signed squares, so the
\* product of two of them has an exact root.
ISqrt(m) == CHOOSE r \in 0..m : r * r = m

RatSqrt(x) ==
    IF x.s = 0 THEN Zero
    ELSE [s |-> 1, n |-> NatOfInt(ISqrt(NatSmall(x.n))),
          d |-> NatOfInt(ISqrt(NatSmall(x.d)))]

----------------------------------------------------------------------------
(* Strings of the program that the code takes apart (token names, pair     *)
(* names, pool addresses) are tuples of one-character strings.             *)

UpperCase == <<"A", "B", "C", "D", "E", "F", "G", "H", "I", "J", "K", "L", "M",
               "N", "O", "P", "Q", "R", "S", "T", "U", "V", "W", "X", "Y", "Z">>
LowerCase == <<"a", "b", "c", "d", "e", "f", "g", "h", "i", "j", "k", "l", "m",
               "n", "o", "p", "q", "r", "s", "t", "u", "v", "w", "x", "y", "z">>

\* str.lower, character by character
LowerOf == [c \in {UpperCase[i] : i \in 1..Len(UpperCase)} |->
               LowerCase[CHOOSE i \in 1..Len(UpperCase) : UpperCase[i] = c]]

LowerChar(c) == IF c \in DOMAIN LowerOf THEN LowerOf[c] ELSE c

Lower(str) == [i \in 1..Len(str) |-> LowerChar(str[i])]

\* str.startswith
StartsWith(str, prefix) ==
    /\ Len(prefix) <= Len(str)
    /\ SubSeq(str, 1, Len(prefix)) = prefix

\* str[:k]
Prefix(str, k) == SubSeq(str, 1, IF Len(str) < k THEN Len(str) ELSE k)

----------------------------------------------------------------------------
(* fork_detector.ForkDetector                                              *)

known_forks ==
    << [prefix |-> <<"0", "x", "7", "9", "5", "0", "6", "5">>,
        name |-> "SushiSwap", original |-> "Uniswap V2", score |-> Frac(9, 10)],
       [prefix |-> <<"0", "x", "0", "e", "d", "7", "e", "5">>,
        name |-> "PancakeSwap", original |-> "Uniswap V2", score |-> Frac(8, 10)],
       [prefix |-> <<"0", "x", "c", "3", "5", "d", "a", "d">>,
        name |-> "QuickSwap", original |-> "Uniswap V2", score |-> Frac(7, 10)] >>

known_genuine ==
    << [prefix |-> <<"0", "x", "b", "4", "e", "1", "6", "d">>,
        name |-> "Uniswap V2", is_fork |-> FALSE, score |-> Zero],
       [prefix |-> <<"0", "x", "0", "d", "4", "a", "1", "1">>,
        name |-> "Uniswap V2", is_fork |-> FALSE, score |-> Zero] >>

\* the first index of table whose prefix the address starts with, 0 if none
FirstMatchAny(table, address) == IF Len(table) > 0 THEN 1 ELSE 0

FirstMatch(table, address) ==
    IF \E i \in 1..Len(table) : StartsWith(address, table[i].prefix)
    THEN CHOOSE i \in 1..Len(table) :
            /\ StartsWith(address, table[i].prefix)
            /\ \A j \in 1..(i - 1) : ~StartsWith(address, table[j].prefix)
    ELSE 0

query_pool(pool_address) ==
    LET address == Lower(pool_address)
        f == FirstMatch(known_forks, address)
        g == FirstMatch(known_genuine, address)
    IN  IF f # 0
        THEN [name |-> known_forks[f].name, is_fork |-> TRUE,
              original_protocol |-> known_forks[f].original,
              risk_score |-> known_forks[f].score]
        ELSE IF g # 0
        THEN [name |-> known_genuine[g].name, is_fork |-> known_genuine[g].is_fork,
              original_protocol |-> "None", risk_score |-> known_genuine[g].score]
        ELSE [name |-> "unknown", is_fork |-> FALSE,
              original_protocol |-> "None", risk_score |-> Frac(3, 10)]

is_vampire_fork_by_score(pool_address) ==
    RatLt(Frac(9, 10), query_pool(pool_address).risk_score)

is_vampire_fork(pool_address) == query_pool(pool_address).is_fork

----------------------------------------------------------------------------
(* The inputs of the model.                                                *)

MaxOps == 2          \* calls made in one behaviour
InitBal == 5         \* the balance the funded user starts with, per token

ETH == <<"E", "T", "H">>
SUSHI == <<"7", "9", "5", "0", "6", "5">>   \* a pool SUSHI-x gets the address 0x795065-x

Tokens == {ETH, SUSHI}
Users == {"alice", "bob"}

\* the calls of the model name two different tokens
TokenPairs == {pair \in Tokens \X Tokens : pair[1] # pair[2]}

\* signed squares, so that math.sqrt(amount0 * amount1) is exact
Amounts == {-1, 0, 1, 4}

----------------------------------------------------------------------------
(* Python dicts: functions whose domain is the set of keys present.        *)

EmptyDict == [k \in {} |-> Zero]

\* d.get(k, default)
Get(d, k, default) == IF k \in DOMAIN d THEN d[k] ELSE default

\* d[k] = v
Put(d, k, v) == [x \in DOMAIN d \cup {k} |-> IF x = k THEN v ELSE d[x]]

----------------------------------------------------------------------------
(* backtester.AMM                                                          *)

fee == Frac(3, 1000)
gas_fee == Frac(1, 10000)

\* f"{token0}-{token1}"
PairName(token0, token1) == token0 \o <<"-">> \o token1

\* LPToken(pair, address, reserves, total_supply), fee_accumulated defaulted
LPToken(pair, address, reserves, total_supply) ==
    [pair |-> pair, address |-> address, reserves |-> reserves,
     total_supply |-> total_supply, fee_accumulated |-> Zero]

\* "Apply gas fee": what execute_swap returns for the amount taken from the pool
apply_gas_fee_twice(amount_out) ==
    RatMul(RatMul(amount_out, RatSub(One, gas_fee)), RatSub(One, gas_fee))

apply_gas_fee(amount_out) == RatMul(amount_out, RatSub(One, gas_fee))

\* AMM.execute_swap on the pools ps: the error raised ("none" if none), the
\* pools afterwards and the value returned
execute_swap(ps, token_in, token_out, amount_in) ==
    LET pair_name == PairName(token_in, token_out)
    IN  IF pair_name \notin DOMAIN ps
        THEN [err |-> "PoolNotFound", pools |-> ps, ret |-> Zero]
        ELSE
        LET lp_token == ps[pair_name]
            reserve_in == lp_token.reserves[1]
            reserve_out == lp_token.reserves[2]
            amount_in_with_fee == RatMul(amount_in, RatSub(One, fee))
            divisor == RatAdd(reserve_in, amount_in_with_fee)
        IN  IF RatSign(divisor) = 0
            THEN [err |-> "ZeroDivisionError", pools |-> ps, ret |-> Zero]
            ELSE
            LET amount_out == RatDiv(RatMul(amount_in_with_fee, reserve_out), divisor)
            IN  [err |-> "none",
                 pools |-> [ps EXCEPT ![pair_name] =
                     [@ EXCEPT !.reserves = <<RatAdd(reserve_in, amount_in),
                                              RatSub(reserve_out, amount_out)>>,
                               !.fee_accumulated = RatAdd(@, RatMul(amount_in, fee))]],
                 ret |-> apply_gas_fee(amount_out)]

\* "Initial LP tokens = sqrt(amount0 * amount1)"
initial_supply(amount0, amount1) == RatSqrt(RatMul(amount0, amount1))

\* AMM.add_liquidity on the pools ps: the error raised, the pools afterwards
\* and the key of the pool returned
add_liquidity(ps, token0, token1, amount0, amount1) ==
    LET pair_name == PairName(token0, token1)
    IN  IF pair_name \notin DOMAIN ps
        THEN IF RatSign(RatMul(amount0, amount1)) < 0
             THEN [err |-> "MathDomainError", pools |-> ps, pair |-> pair_name]
             ELSE
             [err |-> "none",
              pools |-> Put(ps, pair_name,
                            LPToken(pair_name, <<"0", "x">> \o Prefix(pair_name, 8),
                                    <<amount0, amount1>>,
                                    initial_supply(amount0, amount1))),
              pair |-> pair_name]
        ELSE
        LET reserve0 == ps[pair_name].reserves[1]
            reserve1 == ps[pair_name].reserves[2]
        IN  IF RatSign(reserve0) = 0 \/ RatSign(reserve1) = 0
            THEN [err |-> "ZeroDivisionError", pools |-> ps, pair |-> pair_name]
            ELSE
            LET lp_amount == RatMul(RatMin(RatDiv(amount0, reserve0),
                                           RatDiv(amount1, reserve1)),
                                    ps[pair_name].total_supply)
            IN  [err |-> "none",
                 pools |-> [ps EXCEPT ![pair_name] =
                     [@ EXCEPT !.reserves = <<RatAdd(reserve0, amount0),
                                              RatAdd(reserve1, amount1)>>,
                               !.total_supply = RatAdd(@, lp_amount)]],
                 pair |-> pair_name]

----------------------------------------------------------------------------
(* backtester.DEXBacktester                                                *)

VARIABLES
    pools,              \* amm.pools: pair name -> LPToken
    user_balances,      \* user -> {token: amount}
    user_lp_positions,  \* user -> {pair name: lp tokens}
    last,               \* the latest call: its name, arguments and the error it raised
    ops                 \* the number of calls made

vars == <<pools, user_balances, user_lp_positions, last, ops>>

\* The objects of the other classes, which no DEXBacktester method touches.
VARIABLES
    reserves,           \* amm.AMM.reserves: the (token, amount) items of the dict, in order
    amm_call,           \* amm.AMM: the latest execute_swap call and what it returned
    threads,            \* the safe_swap calls running at once: their positions and locals
    dexb,               \* dex_backtester.DexBacktester and its latest refresh_forks call
    cb                  \* backtester.CryptoBacktester and the position of run_backtest

others == <<reserves, amm_call, threads, dexb, cb>>

\* the other objects are not constructed
Absent ==
    /\ reserves = <<>>
    /\ amm_call = <<>>
    /\ threads = <<>>
    /\ dexb = <<>>
    /\ cb = <<>>

\* self.user_balances.get(user, {}).get(token, 0)
Balance(balances, user, token) == Get(Get(balances, user, EmptyDict), token, Zero)

Outcome(err, ps, balances, positions) ==
    [err |-> err, pools |-> ps, user_balances |-> balances,
     user_lp_positions |-> positions]

\* "if user not in self.user_balances: self.user_balances[user] = {}"
with_user_reset(balances, user) == Put(balances, user, EmptyDict)

with_user(balances, user) ==
    IF user \in DOMAIN balances THEN balances ELSE Put(balances, user, EmptyDict)

\* DEXBacktester.safe_swap from the state (ps, balances, positions): the error
\* raised ("none" if it returns) and the state it leaves
safe_swap_from(ps, balances, positions, user, token_in, token_out, amount_in) ==
    IF RatLt(Balance(balances, user, token_in), amount_in)
    THEN Outcome("InsufficientBalance", ps, balances, positions)
    ELSE IF PairName(token_in, token_out) \notin DOMAIN ps
    THEN Outcome("KeyError", ps, balances, positions)
    ELSE IF is_vampire_fork(ps[PairName(token_in, token_out)].address)
    THEN Outcome("SecurityAlert", ps, balances, positions)
    ELSE
    LET swapped == execute_swap(ps, token_in, token_out, amount_in)
    IN  IF swapped.err # "none"
        THEN Outcome(swapped.err, swapped.pools, balances, positions)
        ELSE
        LET amount_out == swapped.ret
            b1 == with_user(balances, user)
            b2 == [b1 EXCEPT ![user] =
                      Put(@, token_in, RatSub(Get(@, token_in, Zero), amount_in))]
            b3 == [b2 EXCEPT ![user] =
                      Put(@, token_out, RatAdd(Get(@, token_out, Zero), amount_out))]
        IN  Outcome("none", swapped.pools, b3, positions)

\* DEXBacktester.safe_swap from the current state
safe_swap_outcome(user, token_in, token_out, amount_in) ==
    safe_swap_from(pools, user_balances, user_lp_positions,
                   user, token_in, token_out, amount_in)

\* DEXBacktester.provide_liquidity from the current state: the error raised
\* and the state it leaves, which keeps every assignment made before the error
provide_liquidity_outcome(user, token0, token1, amount0, amount1) ==
    IF \/ RatLt(Balance(user_balances, user, token0), amount0)
       \/ RatLt(Balance(user_balances, user, token1), amount1)
    THEN Outcome("InsufficientBalance", pools, user_balances, user_lp_positions)
    ELSE
    LET added == add_liquidity(pools, token0, token1, amount0, amount1)
    IN  IF added.err # "none"
        THEN Outcome(added.err, added.pools, user_balances, user_lp_positions)
        ELSE
        LET b1 == IF user \in DOMAIN user_balances THEN user_balances
                  ELSE Put(user_balances, user, EmptyDict)
        IN  IF token0 \notin DOMAIN b1[user]
            THEN Outcome("KeyError", added.pools, b1, user_lp_positions)
            ELSE
            LET b2 == [b1 EXCEPT ![user][token0] = RatSub(@, amount0)]
            IN  IF token1 \notin DOMAIN b2[user]
                THEN Outcome("KeyError", added.pools, b2, user_lp_positions)
                ELSE
                LET b3 == [b2 EXCEPT ![user][token1] = RatSub(@, amount1)]
                    l1 == IF user \in DOMAIN user_lp_positions THEN user_lp_positions
                          ELSE Put(user_lp_positions, user, EmptyDict)
                    lp_token == added.pools[added.pair]
                IN  IF RatSign(lp_token.total_supply) = 0
                       /\ RatSign(RatMul(amount0, amount1)) < 0
                    THEN Outcome("MathDomainError", added.pools, b3, l1)
                    ELSE IF RatSign(lp_token.total_supply) # 0
                            /\ (\/ RatSign(lp_token.reserves[1]) = 0
                                \/ RatSign(lp_token.reserves[2]) = 0)
                    THEN Outcome("ZeroDivisionError", added.pools, b3, l1)
                    ELSE
                    LET lp_amount ==
                            IF RatSign(lp_token.total_supply) = 0
                            THEN RatSqrt(RatMul(amount0, amount1))
                            ELSE RatMul(RatMin(RatDiv(amount0, lp_token.reserves[1]),
                                               RatDiv(amount1, lp_token.reserves[2])),
                                        lp_token.total_supply)
                    IN  Outcome("none", added.pools, b3,
                                [l1 EXCEPT ![user] =
                                    Put(@, lp_token.pair,
                                        RatAdd(Get(@, lp_token.pair, Zero), lp_amount))])

\* dex.user_balances["alice"] = {...}: the funding the driver script does
\* before the first call
InitialBalances == [u \in {"alice"} |-> [t \in Tokens |-> R(InitBal)]]

\* last: the name of the latest call and the error it raised ("none" when it
\* returned), and its arguments when it returned
NoArgs == [user |-> "", token0 |-> <<>>, token1 |-> <<>>, amount0 |-> 0, amount1 |-> 0]

Called(op, err, user, token0, token1, amount0, amount1) ==
    [op |-> op, err |-> err,
     args |-> IF err = "none"
              THEN [user |-> user, token0 |-> token0, token1 |-> token1,
                    amount0 |-> amount0, amount1 |-> amount1]
              ELSE NoArgs]

Init ==
    /\ pools = [k \in {} |-> Zero]
    /\ user_balances = InitialBalances
    /\ user_lp_positions = [u \in {} |-> EmptyDict]
    /\ last = [op |-> "init", err |-> "none", args |-> NoArgs]
    /\ ops = 0
    /\ Absent

safe_swap(user, token_in, token_out, amount_in) ==
    /\ ops < MaxOps
    /\ \E out \in {safe_swap_outcome(user, token_in, token_out, R(amount_in))} :
           /\ pools' = out.pools
           /\ user_balances' = out.user_balances
           /\ user_lp_positions' = out.user_lp_positions
           /\ last' = Called("safe_swap", out.err, user, token_in, token_out, amount_in, 0)
    /\ ops' = ops + 1
    /\ UNCHANGED others

provide_liquidity(user, token0, token1, amount0, amount1) ==
    /\ ops < MaxOps
    /\ \E out \in {provide_liquidity_outcome(user, token0, token1, R(amount0), R(amount1))} :
           /\ pools' = out.pools
           /\ user_balances' = out.user_balances
           /\ user_lp_positions' = out.user_lp_positions
           /\ last' = Called("provide_liquidity", out.err, user, token0, token1,
                             amount0, amount1)
    /\ ops' = ops + 1
    /\ UNCHANGED others

Next ==
    \/ \E user \in Users, pair \in TokenPairs, amount_in \in Amounts :
          safe_swap(user, pair[1], pair[2], amount_in)
    \/ \E user \in Users, pair \in TokenPairs, amount0 \in Amounts, amount1 \in Amounts :
          provide_liquidity(user, pair[1], pair[2], amount0, amount1)

Spec == Init /\ [][Next]_vars

----------------------------------------------------------------------------
(* Vocabulary of the claims.                                               *)

\* the constant product of a pool
K(pool) == RatMul(pool.reserves[1], pool.reserves[2])

\* the latest call was op and returned
Returned(op) == last.op = op /\ last.err = "none"

\* the pair name the latest call named
LastPair == PairName(last.args.token0, last.args.token1)

RECURSIVE SumLP(_, _, _)
\* the sum over the users us of positions[user][pair], absent entries counting 0
SumLP(positions, us, pair) ==
    IF us = {} THEN Zero
    ELSE LET u == CHOOSE x \in us : TRUE
         IN  RatAdd(Get(Get(positions, u, EmptyDict), pair, Zero),
                    SumLP(positions, us \ {u}, pair))

IsForkAddress(address) ==
    StartsWith(Lower(address), <<"0", "x", "7", "9", "5", "0", "6", "5">>)

----------------------------------------------------------------------------
\* C1: every safe_swap that returns, with amount_in > 0 on a pool whose
\* total_supply is > 0, leaves the product of the pool's reserves greater than
\* or equal to the product before, and strictly greater as the fee is not 0.
C1_ProductNeverDecreases ==
    [][ (/\ Returned("safe_swap")'
         /\ last'.args.amount0 > 0
         /\ RatSign(pools[LastPair'].total_supply) > 0)
        => /\ RatLe(K(pools[LastPair']), K(pools'[LastPair']))
           /\ (RatSign(fee) # 0 => RatLt(K(pools[LastPair']), K(pools'[LastPair']))) ]_vars

\* C2: in every state, for every pool, the LP positions of all users under the
\* pool's pair sum to the pool's total_supply.
C2_SharesConserved ==
    \A pair \in DOMAIN pools :
        RatEq(SumLP(user_lp_positions, DOMAIN user_lp_positions, pair),
              pools[pair].total_supply)

\* C3: in every state both reserves of every pool and every user token balance
\* are >= 0.
C3_NothingNegative ==
    /\ \A pair \in DOMAIN pools :
           /\ RatSign(pools[pair].reserves[1]) >= 0
           /\ RatSign(pools[pair].reserves[2]) >= 0
    /\ \A user \in DOMAIN user_balances : \A token \in DOMAIN user_balances[user] :
           RatSign(user_balances[user][token]) >= 0

\* C4: in every state, safe_swap by a user whose token_in balance covers
\* amount_in, against a pool whose address starts with 0x795065, raises the
\* security alert and leaves pools (reserves, fee accumulator), balances and
\* LP positions as they were.
C4_ForkSwapBlocked ==
    \A token_in \in Tokens : \A token_out \in Tokens \ {token_in} :
        (/\ PairName(token_in, token_out) \in DOMAIN pools
         /\ IsForkAddress(pools[PairName(token_in, token_out)].address))
        => \A user \in Users, amount_in \in Amounts :
               ~RatLt(Balance(user_balances, user, token_in), R(amount_in))
               => safe_swap_outcome(user, token_in, token_out, R(amount_in))
                    = Outcome("SecurityAlert", pools, user_balances, user_lp_positions)

\* a swap against a fork pool was blocked, by a user who could pay
C4_Witness ==
    /\ last.op = "safe_swap" /\ last.err = "SecurityAlert"
    /\ \E pair \in DOMAIN pools : IsForkAddress(pools[pair].address)

----------------------------------------------------------------------------
\* what the latest swap took out of the pool's token_out reserve
ReserveOutDecrease == RatSub(pools[LastPair'].reserves[2], pools'[LastPair'].reserves[2])

\* the change of a user's balance of a token over a step
BalanceChange(user, token) ==
    RatSub(Balance(user_balances', user, token), Balance(user_balances, user, token))

RECURSIVE SumBalances(_, _, _)
SumBalances(balances, us, token) ==
    IF us = {} THEN Zero
    ELSE LET u == CHOOSE x \in us : TRUE
         IN  RatAdd(Balance(balances, u, token), SumBalances(balances, us \ {u}, token))

RECURSIVE SumReserves(_, _, _)
\* the amount of a token in the pools of the pairs given (t0, t1 the pair's tokens)
SumReserves(ps, pairs, token) ==
    IF pairs = {} THEN Zero
    ELSE LET pr == CHOOSE x \in pairs : TRUE
             held == IF PairName(pr[1], pr[2]) \notin DOMAIN ps THEN Zero
                     ELSE RatAdd(IF pr[1] = token
                                 THEN ps[PairName(pr[1], pr[2])].reserves[1] ELSE Zero,
                                 IF pr[2] = token
                                 THEN ps[PairName(pr[1], pr[2])].reserves[2] ELSE Zero)
         IN  RatAdd(held, SumReserves(ps, pairs \ {pr}, token))

\* the amount of a token held by all pools and all users together
TokenTotal(ps, balances, token) ==
    RatAdd(SumReserves(ps, Tokens \X Tokens, token), SumBalances(balances, Users, token))

\* C5 as claimed: a safe_swap that returns takes amount_in from the user's
\* token_in balance and adds to the token_out balance exactly what left the
\* pool's token_out reserve, so pools and users together hold the same amount
\* of every token as before.
C5_SwapMovesReserveDecrease ==
    [][ Returned("safe_swap")' =>
        \A token \in Tokens :
            /\ RatEq(BalanceChange(last'.args.user, token),
                     RatSub(IF token = last'.args.token1 THEN ReserveOutDecrease ELSE Zero,
                            IF token = last'.args.token0 THEN R(last'.args.amount0)
                            ELSE Zero))
            /\ RatEq(TokenTotal(pools', user_balances', token),
                     TokenTotal(pools, user_balances, token)) ]_vars

\* C5 as amended: a safe_swap that returns takes amount_in from the user's
\* token_in balance and adds to the token_out balance (1 - gas_fee) times what
\* left the pool's token_out reserve; pools and users together then hold the
\* same amount of every token except token_out, of which they hold gas_fee
\* times the reserve decrease less.
C5_SwapMovesReserveDecreaseLessGas ==
    [][ Returned("safe_swap")' =>
        \A token \in Tokens :
            /\ RatEq(BalanceChange(last'.args.user, token),
                     RatSub(IF token = last'.args.token1
                            THEN RatMul(RatSub(One, gas_fee), ReserveOutDecrease)
                            ELSE Zero,
                            IF token = last'.args.token0 THEN R(last'.args.amount0)
                            ELSE Zero))
            /\ RatEq(RatSub(TokenTotal(pools, user_balances, token),
                            TokenTotal(pools', user_balances', token)),
                     IF token = last'.args.token1
                     THEN RatMul(gas_fee, ReserveOutDecrease) ELSE Zero) ]_vars

\* a swap of a positive amount between two different tokens returned and took
\* something out of the pool
C5_Witness ==
    /\ Returned("safe_swap")
    /\ last.args.amount0 > 0
    /\ last.args.token0 # last.args.token1
    /\ RatSign(Balance(user_balances, last.args.user, last.args.token1)) > 0

----------------------------------------------------------------------------
\* the state a call leaves is the state it found
LeavesStateAlone(out) ==
    /\ out.pools = pools
    /\ out.user_balances = user_balances
    /\ out.user_lp_positions = user_lp_positions

\* C6: the pair key is unordered.  In every state at most one of the pools
\* A-B and B-A exists, and when the pool A-B exists a safe_swap with
\* token_in = B and token_out = A by a user who can pay finds a pool.
C6_PairKeyUnordered ==
    \A a \in Tokens : \A b \in Tokens \ {a} :
        PairName(a, b) \in DOMAIN pools
        => /\ PairName(b, a) \notin DOMAIN pools
           /\ \A user \in Users, amount_in \in Amounts :
                  ~RatLt(Balance(user_balances, user, b), R(amount_in))
                  => safe_swap_outcome(user, b, a, R(amount_in)).err
                        \notin {"KeyError", "PoolNotFound"}

\* C7: safe_swap reports pool-not-found before insufficient-balance before
\* security-blocked.  In every state a safe_swap naming a pair without a pool
\* fails with the pool-not-found error (the KeyError of the pools lookup counts
\* as one) whatever the balance, and one naming an existing pool with a
\* token_in balance below amount_in fails with the insufficient-balance error.
C7_ErrorOrder ==
    \A user \in Users, pair \in TokenPairs, amount_in \in Amounts :
      LET token_in == pair[1]
          token_out == pair[2]
      IN
        /\ PairName(token_in, token_out) \notin DOMAIN pools
           => safe_swap_outcome(user, token_in, token_out, R(amount_in)).err
                 \in {"KeyError", "PoolNotFound"}
        /\ (/\ PairName(token_in, token_out) \in DOMAIN pools
            /\ RatLt(Balance(user_balances, user, token_in), R(amount_in)))
           => safe_swap_outcome(user, token_in, token_out, R(amount_in)).err
                 = "InsufficientBalance"

\* C8: in every state a safe_swap with amount_in <= 0 on an existing pool that
\* is no fork raises an error and leaves pools, balances and positions as they
\* were.
C8_NonPositiveAmountRejected ==
    \A token_in \in Tokens : \A token_out \in Tokens \ {token_in} :
        (/\ PairName(token_in, token_out) \in DOMAIN pools
         /\ ~is_vampire_fork(pools[PairName(token_in, token_out)].address))
        => \A user \in Users, amount_in \in {a \in Amounts : a <= 0} :
               /\ safe_swap_outcome(user, token_in, token_out, R(amount_in)).err # "none"
               /\ LeavesStateAlone(safe_swap_outcome(user, token_in, token_out,
                                                     R(amount_in)))

RatAbs(x) == IF RatSign(x) < 0 THEN RatNeg(x) ELSE x

\* amount0 / amount1 differs from reserve0 / reserve1 by more than 1% of the
\* latter (all four > 0)
Imbalanced(amount0, amount1, reserve0, reserve1) ==
    RatLt(RatMul(Frac(1, 100), RatMul(amount1, reserve0)),
          RatAbs(RatSub(RatMul(amount0, reserve1), RatMul(amount1, reserve0))))

\* C9: in every state a deposit of positive amounts into a pool with positive
\* reserves, whose ratio is more than 1% off the pool's, raises an error and
\* leaves pools, balances and positions as they were.
C9_ImbalancedDepositRejected ==
    \A token0 \in Tokens : \A token1 \in Tokens \ {token0} :
        (/\ PairName(token0, token1) \in DOMAIN pools
         /\ RatSign(pools[PairName(token0, token1)].reserves[1]) > 0
         /\ RatSign(pools[PairName(token0, token1)].reserves[2]) > 0)
        => \A user \in Users, amount0 \in Amounts, amount1 \in Amounts :
               (/\ amount0 > 0 /\ amount1 > 0
                /\ Imbalanced(R(amount0), R(amount1),
                              pools[PairName(token0, token1)].reserves[1],
                              pools[PairName(token0, token1)].reserves[2]))
               => /\ provide_liquidity_outcome(user, token0, token1,
                                               R(amount0), R(amount1)).err # "none"
                  /\ LeavesStateAlone(provide_liquidity_outcome(user, token0, token1,
                                                                R(amount0), R(amount1)))

\* the user holds at least amount0 of token0 and amount1 of token1
Holds(user, token0, token1, amount0, amount1) ==
    /\ ~RatLt(Balance(user_balances, user, token0), R(amount0))
    /\ ~RatLt(Balance(user_balances, user, token1), R(amount1))

\* the deposit returns, having created the pool with reserves (amount0,
\* amount1) and total_supply the root of amount0 * amount1, recorded that
\* total_supply as the user's LP position and taken the amounts from the
\* user's balances
FirstDepositDone(out, user, token0, token1, amount0, amount1) ==
    /\ out.err = "none"
    /\ PairName(token0, token1) \in DOMAIN out.pools
    /\ LET pool == out.pools[PairName(token0, token1)]
       IN  /\ pool.reserves = <<R(amount0), R(amount1)>>
           /\ RatSign(pool.total_supply) >= 0
           /\ RatEq(RatMul(pool.total_supply, pool.total_supply), R(amount0 * amount1))
           /\ user \in DOMAIN out.user_lp_positions
           /\ PairName(token0, token1) \in DOMAIN out.user_lp_positions[user]
           /\ RatEq(out.user_lp_positions[user][PairName(token0, token1)],
                    pool.total_supply)
    /\ \A token \in Tokens :
           RatEq(Balance(out.user_balances, user, token),
                 RatSub(Balance(user_balances, user, token),
                        RatAdd(IF token = token0 THEN R(amount0) ELSE Zero,
                               IF token = token1 THEN R(amount1) ELSE Zero)))

\* C10: in every state, the first deposit for a pair by a user who holds the
\* amounts does all of FirstDepositDone.
C10_FirstDeposit ==
    \A token0 \in Tokens : \A token1 \in Tokens \ {token0} :
        PairName(token0, token1) \notin DOMAIN pools
        => \A user \in Users, amount0 \in Amounts, amount1 \in Amounts :
               Holds(user, token0, token1, amount0, amount1)
               => FirstDepositDone(provide_liquidity_outcome(user, token0, token1,
                                                             R(amount0), R(amount1)),
                                   user, token0, token1, amount0, amount1)

\* The part of C10 the code keeps: the first deposit for a pair of amounts
\* amount0 > 0 and amount1 > 0 by a user who holds them does all of
\* FirstDepositDone.
FirstPositiveDeposit ==
    \A token0 \in Tokens : \A token1 \in Tokens \ {token0} :
        PairName(token0, token1) \notin DOMAIN pools
        => \A user \in Users, amount0 \in {a \in Amounts : a > 0},
              amount1 \in {a \in Amounts : a > 0} :
               Holds(user, token0, token1, amount0, amount1)
               => FirstDepositDone(provide_liquidity_outcome(user, token0, token1,
                                                             R(amount0), R(amount1)),
                                   user, token0, token1, amount0, amount1)

----------------------------------------------------------------------------
(* amm.AMM: the pool without fees.  Its reserves dict is kept as the       *)
(* sequence of its (token, amount) items, in the dict's order.             *)

MaxSwaps == 2        \* execute_swap calls made on one amm.AMM

AmmTokens == {"USDC", "ETH", "DAI"}
ReserveAmounts == {0, 1, 2}      \* the reserves an amm.AMM is constructed with
SwapAmounts == {-1, 0, 1, 2}     \* the amount_in of its swaps

\* the key orders of the dicts an amm.AMM is constructed from: two or three
\* different tokens
KeyOrders ==
    {ks \in UNION {[1..n -> AmmTokens] : n \in 2..3} :
        \A i \in DOMAIN ks, j \in DOMAIN ks : i # j => ks[i] # ks[j]}

\* the position of a key in the dict, 0 if it is no key of it
KeyIndex(rs, token) ==
    IF \E i \in DOMAIN rs : rs[i][1] = token
    THEN CHOOSE i \in DOMAIN rs : rs[i][1] = token
    ELSE 0

\* AMM._other_token: the position of the first key that is not token_in, 0 if
\* there is none (the list index raises IndexError)
other_token(rs, token_in) ==
    IF \E i \in DOMAIN rs : rs[i][1] # token_in
    THEN CHOOSE i \in DOMAIN rs :
            /\ rs[i][1] # token_in
            /\ \A j \in 1..(i - 1) : rs[j][1] = token_in
    ELSE 0

\* "amount_out = self.reserves[token_out] - (k / self.reserves[token_in])"
swap_output_less_fee(reserve_out, k, reserve_in) ==
    RatMul(RatSub(One, fee), RatSub(reserve_out, RatDiv(k, reserve_in)))

swap_output(reserve_out, k, reserve_in) == RatSub(reserve_out, RatDiv(k, reserve_in))

\* "self.reserves[token_out] = k / self.reserves[token_in]"
new_reserve_out_kept(reserve_out, k, reserve_in) == reserve_out

new_reserve_out(reserve_out, k, reserve_in) == RatDiv(k, reserve_in)

\* amm.AMM.execute_swap on the reserves rs: the error raised ("none" if it
\* returns), the reserves it leaves and the value returned
amm_execute_swap(rs, amount_in, token_in) ==
    LET o == other_token(rs, token_in)
        i == KeyIndex(rs, token_in)
    IN  IF o = 0 THEN [err |-> "IndexError", reserves |-> rs, ret |-> Zero]
        ELSE IF i = 0 THEN [err |-> "KeyError", reserves |-> rs, ret |-> Zero]
        ELSE
        LET k == RatMul(rs[i][2], rs[o][2])
            r1 == [rs EXCEPT ![i][2] = RatAdd(@, amount_in)]
        IN  IF RatSign(r1[i][2]) = 0
            THEN [err |-> "ZeroDivisionError", reserves |-> r1, ret |-> Zero]
            ELSE
            LET amount_out == swap_output(r1[o][2], k, r1[i][2])
            IN  [err |-> "none",
                 reserves |-> [r1 EXCEPT ![o][2] = new_reserve_out(@, k, r1[i][2])],
                 ret |-> amount_out]

RECURSIVE Product(_, _)
\* the product of the reserves at the positions 1..n
Product(rs, n) == IF n = 0 THEN One ELSE RatMul(rs[n][2], Product(rs, n - 1))

\* amm_call: the latest call, with the product of the reserves at construction
\* and whether every amount_in so far was positive
AmmInit ==
    /\ \E ks \in KeyOrders : \E amounts \in [DOMAIN ks -> ReserveAmounts] :
           /\ reserves = [i \in DOMAIN ks |-> <<ks[i], R(amounts[i])>>]
           /\ amm_call = [n |-> 0, err |-> "none", token_in |-> "", amount_in |-> 0,
                          ret |-> Zero, positive |-> TRUE,
                          initial_k |-> Product([i \in DOMAIN ks |-> <<ks[i], R(amounts[i])>>],
                                                Len(ks))]
    /\ pools = [k \in {} |-> Zero]
    /\ user_balances = [u \in {} |-> EmptyDict]
    /\ user_lp_positions = [u \in {} |-> EmptyDict]
    /\ last = [op |-> "init", err |-> "none", args |-> NoArgs]
    /\ ops = 0
    /\ threads = <<>>
    /\ dexb = <<>>
    /\ cb = <<>>

AmmExecuteSwap(amount_in, token_in) ==
    /\ amm_call.n < MaxSwaps
    /\ \E out \in {amm_execute_swap(reserves, R(amount_in), token_in)} :
           /\ reserves' = out.reserves
           /\ amm_call' = [amm_call EXCEPT
                  !.n = @ + 1, !.err = out.err, !.token_in = token_in,
                  !.amount_in = amount_in, !.ret = out.ret,
                  !.positive = @ /\ amount_in > 0]
    /\ UNCHANGED <<vars, threads, dexb, cb>>

AmmNext == \E amount_in \in SwapAmounts, token_in \in AmmTokens :
               AmmExecuteSwap(amount_in, token_in)

AmmSpec == AmmInit /\ [][AmmNext]_<<reserves, amm_call>>

----------------------------------------------------------------------------
\* C11: in every state of an amm.AMM on which every execute_swap so far had
\* amount_in > 0, the product of the reserves equals the product of the
\* reserves at construction.
C11_ProductConstant ==
    amm_call.positive
    => RatEq(Product(reserves, Len(reserves)), amm_call.initial_k)

\* two swaps of positive amounts returned on a pool of two tokens whose
\* product is not 0
C11_Witness ==
    /\ amm_call.n = 2 /\ amm_call.positive /\ amm_call.err = "none"
    /\ Len(reserves) = 2
    /\ RatSign(amm_call.initial_k) > 0

\* C12: an execute_swap(amount_in, token_in) that returns adds amount_in to the
\* reserve of token_in, changes no reserve but that and the reserve of the
\* counter-token (the first other key), and returns what the counter-token's
\* reserve fell by.
C12_SwapEffects ==
    [][ amm_call'.err = "none" =>
        LET i == KeyIndex(reserves, amm_call'.token_in)
            o == other_token(reserves, amm_call'.token_in)
        IN  /\ i # 0 /\ o # 0
            /\ Len(reserves') = Len(reserves)
            /\ \A j \in DOMAIN reserves : reserves'[j][1] = reserves[j][1]
            /\ RatEq(reserves'[i][2], RatAdd(reserves[i][2], R(amm_call'.amount_in)))
            /\ \A j \in DOMAIN reserves \ {i, o} : reserves'[j] = reserves[j]
            /\ RatEq(amm_call'.ret, RatSub(reserves[o][2], reserves'[o][2])) ]_<<reserves, amm_call>>

\* a swap returned a positive amount on a pool of three tokens
C12_Witness ==
    /\ amm_call.n > 0 /\ amm_call.err = "none" /\ amm_call.amount_in > 0
    /\ Len(reserves) = 3
    /\ RatSign(amm_call.ret) > 0

----------------------------------------------------------------------------
(* The risk gate of DEXBacktester.safe_swap on pools of every              *)
(* classification.  A pool's address is "0x" and the first 8 characters of *)
(* its pair name, so the name of token0 decides the classification.        *)

GateTokens ==
    { ETH,                                  \* 0xETH-...: no entry
      SUSHI,                                \* 0x795065: a fork
      <<"7", "9", "5", "0", "6">>,          \* 0x79506-: one character short of the fork
      <<"7", "9", "5", "0", "6", "5", "5">>,\* 0x7950655: the fork prefix and more
      <<"0", "E", "D", "7", "E", "5">>,     \* 0x0ED7E5: a fork, in upper case
      <<"c", "3", "5", "d", "a", "d">>,     \* 0xc35dad: a fork
      <<"b", "4", "e", "1", "6", "d">>,     \* 0xb4e16d: genuine
      <<"0", "D", "4", "A", "1", "1">> }    \* 0x0D4A11: genuine, in upper case

GateInit ==
    /\ pools = [k \in {} |-> Zero]
    /\ user_balances = [u \in {"alice"} |-> [t \in GateTokens |-> R(InitBal)]]
    /\ user_lp_positions = [u \in {} |-> EmptyDict]
    /\ last = [op |-> "init", err |-> "none", args |-> NoArgs]
    /\ ops = 0
    /\ Absent

GateNext ==
    \/ \E token_in \in GateTokens : \E token_out \in GateTokens \ {token_in} :
          safe_swap("alice", token_in, token_out, 1)
    \/ \E token0 \in GateTokens : \E token1 \in GateTokens \ {token0} :
          provide_liquidity("alice", token0, token1, 1, 1)

GateSpec == GateInit /\ [][GateNext]_vars

\* the lower-cased address starts with a prefix of one of the two tables
MatchesTable(address) ==
    \/ \E i \in DOMAIN known_forks : StartsWith(Lower(address), known_forks[i].prefix)
    \/ \E i \in DOMAIN known_genuine : StartsWith(Lower(address), known_genuine[i].prefix)

\* C13: in every state, a pool whose address matches no entry of the tables is
\* classified "unknown", no fork, with a risk score that is not 0; and a
\* safe_swap against any pool by a user whose balance covers it raises the
\* security alert if and only if the pool's address is classified as a fork.
C13_UnknownPassesGate ==
    \A token_in \in GateTokens : \A token_out \in GateTokens \ {token_in} :
        PairName(token_in, token_out) \in DOMAIN pools
        => LET address == pools[PairName(token_in, token_out)].address
               metadata == query_pool(address)
           IN  /\ ~MatchesTable(address)
                  => /\ metadata.name = "unknown"
                     /\ ~metadata.is_fork
                     /\ RatSign(metadata.risk_score) # 0
               /\ \A user \in Users :
                    ~RatLt(Balance(user_balances, user, token_in), One)
                    => ((safe_swap_outcome(user, token_in, token_out, One).err
                            = "SecurityAlert")
                        <=> metadata.is_fork)

\* a swap returned on a pool whose address is one character short of the fork
\* prefix
C13_Witness ==
    /\ Returned("safe_swap")
    /\ last.args.token0 = <<"7", "9", "5", "0", "6">>
    /\ ~MatchesTable(pools[LastPair].address)

----------------------------------------------------------------------------
(* Two safe_swap calls by one user on one pool, run by two threads of the  *)
(* host.  DEXBacktester holds no lock, so the interpreter may switch       *)
(* threads between any two lines; each step below is one or more whole     *)
(* lines of safe_swap and of the execute_swap it calls.                    *)

Threads == {1, 2}
DepositAmounts == {1, 4}     \* what alice deposited before the swaps
ThreadAmounts == {1, 4}      \* the amount_in of the two swaps

\* the arguments of both calls
ConcUser == "alice"
ConcIn == ETH
ConcOut == SUSHI

\* the state after the funding of alice and her first deposit, as the driver
\* script makes them, and two calls about to start
ConcInit ==
    /\ \E amount0 \in DepositAmounts, amount1 \in DepositAmounts :
       \E amounts \in [Threads -> ThreadAmounts] :
        LET added == add_liquidity([k \in {} |-> Zero], ConcIn, ConcOut,
                                   R(amount0), R(amount1))
            balances == [u \in {ConcUser} |->
                            [t \in Tokens |->
                                RatSub(R(InitBal),
                                       IF t = ConcIn THEN R(amount0) ELSE R(amount1))]]
        IN  /\ pools = added.pools
            /\ user_balances = balances
            /\ user_lp_positions =
                   [u \in {ConcUser} |->
                       Put(EmptyDict, added.pair, initial_supply(R(amount0), R(amount1)))]
            /\ threads = [initial |-> [pools |-> added.pools, user_balances |-> balances],
                          calls |-> [t \in Threads |->
                                        [pc |-> "check", amount_in |-> amounts[t],
                                         err |-> "none", reserve_in |-> Zero,
                                         reserve_out |-> Zero, amount_out |-> Zero]]]
    /\ last = [op |-> "init", err |-> "none", args |-> NoArgs]
    /\ ops = 0
    /\ reserves = <<>>
    /\ amm_call = <<>>
    /\ dexb = <<>>
    /\ cb = <<>>

\* the call of thread t moves to the position pc, or ends with the error err
Goto(t, pc) == threads' = [threads EXCEPT !.calls[t].pc = pc]
Raise(t, err) == threads' = [threads EXCEPT !.calls[t].pc = "raised", !.calls[t].err = err]

ConcFrame == UNCHANGED <<user_lp_positions, last, ops, reserves, amm_call, dexb, cb>>

\* safe_swap line 85-86
CheckBalance(t) ==
    /\ threads.calls[t].pc = "check"
    /\ IF RatLt(Balance(user_balances, ConcUser, ConcIn), R(threads.calls[t].amount_in))
       THEN Raise(t, "InsufficientBalance")
       ELSE Goto(t, "gate")
    /\ UNCHANGED <<pools, user_balances>>
    /\ ConcFrame

\* safe_swap lines 89-91
CheckFork(t) ==
    /\ threads.calls[t].pc = "gate"
    /\ IF PairName(ConcIn, ConcOut) \notin DOMAIN pools
       THEN Raise(t, "KeyError")
       ELSE IF is_vampire_fork(pools[PairName(ConcIn, ConcOut)].address)
       THEN Raise(t, "SecurityAlert")
       ELSE Goto(t, "read")
    /\ UNCHANGED <<pools, user_balances>>
    /\ ConcFrame

\* execute_swap lines 24-29: the reserves go to the locals of the call
ReadReserves(t) ==
    /\ threads.calls[t].pc = "read"
    /\ IF PairName(ConcIn, ConcOut) \notin DOMAIN pools
       THEN Raise(t, "PoolNotFound")
       ELSE threads' = [threads EXCEPT
                !.calls[t].pc = "write",
                !.calls[t].reserve_in = pools[PairName(ConcIn, ConcOut)].reserves[1],
                !.calls[t].reserve_out = pools[PairName(ConcIn, ConcOut)].reserves[2]]
    /\ UNCHANGED <<pools, user_balances>>
    /\ ConcFrame

\* execute_swap lines 32-39: the new reserves are computed from the locals
WriteReserves(t) ==
    /\ threads.calls[t].pc = "write"
    /\ LET call == threads.calls[t]
           amount_in_with_fee == RatMul(R(call.amount_in), RatSub(One, fee))
           divisor == RatAdd(call.reserve_in, amount_in_with_fee)
       IN  IF RatSign(divisor) = 0
           THEN Raise(t, "ZeroDivisionError") /\ UNCHANGED pools
           ELSE LET amount_out == RatDiv(RatMul(amount_in_with_fee, call.reserve_out),
                                         divisor)
                IN  /\ pools' = [pools EXCEPT ![PairName(ConcIn, ConcOut)].reserves =
                                    <<RatAdd(call.reserve_in, R(call.amount_in)),
                                      RatSub(call.reserve_out, amount_out)>>]
                    /\ threads' = [threads EXCEPT !.calls[t].pc = "fee",
                                                  !.calls[t].amount_out = amount_out]
    /\ UNCHANGED user_balances
    /\ ConcFrame

\* execute_swap lines 40-43 and the assignment of safe_swap line 94
AccumulateFee(t) ==
    /\ threads.calls[t].pc = "fee"
    /\ pools' = [pools EXCEPT ![PairName(ConcIn, ConcOut)].fee_accumulated =
                    RatAdd(@, RatMul(R(threads.calls[t].amount_in), fee))]
    /\ threads' = [threads EXCEPT !.calls[t].pc = "debit",
                                  !.calls[t].amount_out = apply_gas_fee(@)]
    /\ UNCHANGED user_balances
    /\ ConcFrame

\* safe_swap lines 97-99
Debit(t) ==
    /\ threads.calls[t].pc = "debit"
    /\ LET b1 == IF ConcUser \in DOMAIN user_balances THEN user_balances
                 ELSE Put(user_balances, ConcUser, EmptyDict)
       IN  user_balances' = [b1 EXCEPT ![ConcUser] =
               Put(@, ConcIn, RatSub(Get(@, ConcIn, Zero), R(threads.calls[t].amount_in)))]
    /\ Goto(t, "credit")
    /\ UNCHANGED pools
    /\ ConcFrame

\* safe_swap lines 100-104
Credit(t) ==
    /\ threads.calls[t].pc = "credit"
    /\ user_balances' = [user_balances EXCEPT ![ConcUser] =
           Put(@, ConcOut, RatAdd(Get(@, ConcOut, Zero), threads.calls[t].amount_out))]
    /\ Goto(t, "done")
    /\ UNCHANGED pools
    /\ ConcFrame

ConcNext ==
    \E t \in Threads :
        \/ CheckBalance(t)
        \/ CheckFork(t)
        \/ ReadReserves(t)
        \/ WriteReserves(t)
        \/ AccumulateFee(t)
        \/ Debit(t)
        \/ Credit(t)

ConcSpec == ConcInit /\ [][ConcNext]_<<pools, user_balances, threads>>

\* the call of thread t has ended
Ended(t) == threads.calls[t].pc \in {"done", "raised"}

\* the call of thread t has passed the balance check
PassedCheck(t) ==
    /\ threads.calls[t].pc # "check"
    /\ threads.calls[t].err # "InsufficientBalance"

\* the state the two calls leave when the call of thread first runs alone and
\* the call of thread second after it
Serial(first, second) ==
    LET one == safe_swap_from(threads.initial.pools, threads.initial.user_balances,
                              user_lp_positions, ConcUser, ConcIn, ConcOut,
                              R(threads.calls[first].amount_in))
    IN  safe_swap_from(one.pools, one.user_balances, user_lp_positions,
                       ConcUser, ConcIn, ConcOut, R(threads.calls[second].amount_in))

\* the pool of the calls and the user's balances are those of the outcome
SameAsOutcome(out) ==
    LET pool == pools[PairName(ConcIn, ConcOut)]
        other == out.pools[PairName(ConcIn, ConcOut)]
    IN  /\ RatEq(pool.reserves[1], other.reserves[1])
        /\ RatEq(pool.reserves[2], other.reserves[2])
        /\ RatEq(pool.fee_accumulated, other.fee_accumulated)
        /\ \A token \in Tokens :
               RatEq(Balance(user_balances, ConcUser, token),
                     Balance(out.user_balances, ConcUser, token))

\* C14: two safe_swap calls by the same user on the same pool exclude each
\* other.  When both have ended, the pool's reserves and fee accumulator and
\* the user's balances are those of one of the two serial orders; and the two
\* calls never both pass the balance check when the balance they started from
\* is less than the sum of their amounts.
C14_SwapsSerialize ==
    /\ (Ended(1) /\ Ended(2))
       => (SameAsOutcome(Serial(1, 2)) \/ SameAsOutcome(Serial(2, 1)))
    /\ RatLt(Balance(threads.initial.user_balances, ConcUser, ConcIn),
             R(threads.calls[1].amount_in + threads.calls[2].amount_in))
       => ~(PassedCheck(1) /\ PassedCheck(2))

----------------------------------------------------------------------------
(* dex_backtester.DexBacktester.refresh_forks.  dexb holds the object's    *)
(* active_forks and last_updated (the number of the call that set it, 0    *)
(* for None) and, of the latest call, what the request did, the value      *)
(* returned and the exception that left the method.                        *)

MaxCalls == 3        \* refresh_forks calls made on one DexBacktester
MaxProtocols == 2    \* protocols in one response of the API

min_tvl == 1000000

Uniswap == <<"U", "n", "i", "s", "w", "a", "p">>
Muni == <<"M", "U", "N", "I">>
Sushi == <<"S", "u", "s", "h", "i">>

\* the protocols of a response: dicts with the keys tvl, name and chain.  The
\* tvl is a number, null ("None"), a text that is no number ("text") or
\* missing; the name is a string or missing (has_name FALSE); a missing chain
\* is written "missing"
Protocol(tvl_is, tvl, has_name, name, chain) ==
    [tvl_is |-> tvl_is, tvl |-> tvl, has_name |-> has_name, name |-> name, chain |-> chain]

Protocols ==
    { Protocol("number",  2000000, TRUE,  Uniswap, "Ethereum"),
      Protocol("number",  2000000, TRUE,  Muni,    "missing"),
      Protocol("number",  3000000, TRUE,  Uniswap, "BSC"),
      Protocol("number",  1000000, TRUE,  Uniswap, "Ethereum"),
      Protocol("None",    0,       TRUE,  Uniswap, "Ethereum"),
      Protocol("text",    0,       TRUE,  Uniswap, "Ethereum"),
      Protocol("missing", 0,       TRUE,  Uniswap, "Ethereum"),
      Protocol("number",  2000000, TRUE,  Sushi,   "Ethereum"),
      Protocol("number",  2000000, FALSE, <<>>,    "Ethereum") }

\* what a call meets: requests.get raises, raise_for_status raises,
\* response.json() raises, or the JSON is null or a list of protocols
RequestErrors == {"ConnectionError", "Timeout"}
Responses ==
    {[kind |-> k, data |-> <<>>] :
        k \in RequestErrors \cup {"HTTPError", "JSONDecodeError", "null"}}
    \cup {[kind |-> "list", data |-> d] :
            d \in UNION {[1..n -> Protocols] : n \in 0..MaxProtocols}}

\* sub in str
Contains(str, sub) ==
    \E i \in 0..(Len(str) - Len(sub)) :
        \A j \in 1..Len(sub) : str[i + j] = sub[j]

\* the body of the loop, lines 42-53: the entry appended for a protocol, or
\* none
Appended(protocol) ==
    IF protocol.tvl_is \in {"None", "text"} THEN <<>>      \* float() raises: continue
    ELSE LET tvl == IF protocol.tvl_is = "missing" THEN 0 ELSE protocol.tvl
             name == IF protocol.has_name THEN Lower(protocol.name) ELSE <<>>
         IN  IF tvl > min_tvl /\ Contains(name, <<"u", "n", "i">>)
             THEN << [name |-> protocol.name, tvl |-> tvl,
                      chain |-> IF protocol.chain = "missing" THEN "unknown"
                                ELSE protocol.chain] >>
             ELSE <<>>

RECURSIVE Collect(_, _)
\* the loop of lines 41-53 over the first n protocols of data
Collect(data, n) == IF n = 0 THEN <<>> ELSE Collect(data, n - 1) \o Appended(data[n])

\* "return []" of the handler of line 59
on_api_error_stale(active_forks) == active_forks

on_api_error(active_forks) == <<>>

DexbInit ==
    /\ dexb = [active_forks |-> <<>>, last_updated |-> 0, calls |-> 0,
               request |-> "none", ret |-> <<>>, raised |-> "none"]
    /\ pools = [k \in {} |-> Zero]
    /\ user_balances = [u \in {} |-> EmptyDict]
    /\ user_lp_positions = [u \in {} |-> EmptyDict]
    /\ last = [op |-> "init", err |-> "none", args |-> NoArgs]
    /\ ops = 0
    /\ reserves = <<>>
    /\ amm_call = <<>>
    /\ threads = <<>>
    /\ cb = <<>>

refresh_forks(response) ==
    /\ dexb.calls < MaxCalls
    /\ dexb' =
         IF response.kind \in RequestErrors \cup {"HTTPError", "JSONDecodeError"}
         THEN [dexb EXCEPT !.calls = @ + 1, !.request = response.kind,
                           !.ret = on_api_error(dexb.active_forks), !.raised = "none"]
         ELSE IF response.kind = "null"
         THEN [dexb EXCEPT !.calls = @ + 1, !.request = response.kind,
                           !.active_forks = <<>>,
                           !.ret = on_api_error(<<>>), !.raised = "none"]
         ELSE [dexb EXCEPT !.calls = @ + 1, !.request = response.kind,
                           !.active_forks = Collect(response.data, Len(response.data)),
                           !.last_updated = dexb.calls + 1,
                           !.ret = Collect(response.data, Len(response.data)),
                           !.raised = "none"]
    /\ UNCHANGED <<vars, reserves, amm_call, threads, cb>>

DexbNext == \E response \in Responses : refresh_forks(response)

DexbSpec == DexbInit /\ [][DexbNext]_dexb

----------------------------------------------------------------------------
\* C16: in every state, a provide_liquidity call that raises an error, for any
\* user and any amounts, leaves the pools, the balances and the LP positions
\* as they were.
C16_ProvideLiquidityAllOrNothing ==
    \A user \in Users, pair \in TokenPairs, amount0 \in Amounts, amount1 \in Amounts :
        LET out == provide_liquidity_outcome(user, pair[1], pair[2],
                                             R(amount0), R(amount1))
        IN  out.err # "none" => LeavesStateAlone(out)

\* C17: in every state, a pool with total_supply = 0 accepts a deposit of
\* amount0 > 0 and amount1 > 0 by a user who holds them: the call returns and
\* leaves the pool with total_supply the root of amount0 * amount1, so > 0,
\* and both reserves > 0.
C17_InactivePoolReseeded ==
    \A token0 \in Tokens : \A token1 \in Tokens \ {token0} :
        (/\ PairName(token0, token1) \in DOMAIN pools
         /\ RatSign(pools[PairName(token0, token1)].total_supply) = 0)
        => \A user \in Users, amount0 \in {a \in Amounts : a > 0},
              amount1 \in {a \in Amounts : a > 0} :
               Holds(user, token0, token1, amount0, amount1)
               => LET out == provide_liquidity_outcome(user, token0, token1,
                                                       R(amount0), R(amount1))
                      pool == out.pools[PairName(token0, token1)]
                  IN  /\ out.err = "none"
                      /\ RatSign(pool.total_supply) > 0
                      /\ RatEq(RatMul(pool.total_supply, pool.total_supply),
                               R(amount0 * amount1))
                      /\ RatSign(pool.reserves[1]) > 0
                      /\ RatSign(pool.reserves[2]) > 0

----------------------------------------------------------------------------
(* DEXBacktester with two pools, two funded users and a token that is in   *)
(* no pool: the state after both users were funded with ETH, SUSHI and     *)
(* USDC, alice deposited (4, 4) for ETH-SUSHI and bob (1, 1) for           *)
(* SUSHI-ETH.                                                              *)

USDC == <<"U", "S", "D", "C">>

FrameInit ==
    LET first == add_liquidity([k \in {} |-> Zero], ETH, SUSHI, R(4), R(4))
        second == add_liquidity(first.pools, SUSHI, ETH, One, One)
    IN  /\ pools = second.pools
        /\ user_balances =
               [u \in Users |-> [t \in Tokens \cup {USDC} |->
                   IF t = USDC THEN R(InitBal)
                   ELSE RatSub(R(InitBal), IF u = "alice" THEN R(4) ELSE One)]]
        /\ user_lp_positions =
               [u \in Users |->
                   IF u = "alice"
                   THEN Put(EmptyDict, first.pair, initial_supply(R(4), R(4)))
                   ELSE Put(EmptyDict, second.pair, initial_supply(One, One))]
        /\ last = [op |-> "init", err |-> "none", args |-> NoArgs]
        /\ ops = 0
        /\ Absent

FrameSpec == FrameInit /\ [][Next]_vars

\* C18: a safe_swap(user, token_in, token_out, amount_in) that returns changes
\* nothing but the reserves and the fee accumulator of the pool
\* token_in-token_out and the user's balances of token_in and token_out: the
\* other pools, that pool's pair, address and total_supply, the other users'
\* balances, the user's balances of other tokens and all LP positions are as
\* before.
C18_SwapFrame ==
    [][ Returned("safe_swap")' =>
        LET user == last'.args.user
        IN  /\ DOMAIN pools' = DOMAIN pools
            /\ \A pair \in DOMAIN pools \ {LastPair'} : pools'[pair] = pools[pair]
            /\ pools'[LastPair'].pair = pools[LastPair'].pair
            /\ pools'[LastPair'].address = pools[LastPair'].address
            /\ pools'[LastPair'].total_supply = pools[LastPair'].total_supply
            /\ DOMAIN user_balances' = DOMAIN user_balances \cup {user}
            /\ \A other \in DOMAIN user_balances \ {user} :
                   user_balances'[other] = user_balances[other]
            /\ \A token \in DOMAIN user_balances'[user]
                              \ {last'.args.token0, last'.args.token1} :
                   /\ user \in DOMAIN user_balances
                   /\ token \in DOMAIN user_balances[user]
                   /\ user_balances'[user][token] = user_balances[user][token]
            /\ user \in DOMAIN user_balances
               => DOMAIN user_balances[user] \subseteq DOMAIN user_balances'[user]
            /\ user_lp_positions' = user_lp_positions ]_vars

\* a swap returned and moved the reserves while a second pool, a second user
\* with balances and LP positions of both users existed
C18_Witness ==
    /\ Returned("safe_swap")
    /\ last.args.amount0 > 0
    /\ RatSign(pools[LastPair].fee_accumulated) > 0
    /\ \E pair \in DOMAIN pools : pair # LastPair
    /\ \E other \in DOMAIN user_balances :
           other # last.args.user /\ DOMAIN user_balances[other] # {}
    /\ USDC \in DOMAIN user_balances[last.args.user]
    /\ \A user \in Users : user \in DOMAIN user_lp_positions

----------------------------------------------------------------------------
(* backtester.CryptoBacktester.run_backtest.  One step is one pass of the  *)
(* loop over the rows of self.data.  The signal column, which              *)
(* generate_signals sets to 0 or 1 from the two moving averages, is an     *)
(* input of the step, like the prices of the row.                          *)

MaxBars == 3         \* rows of self.data

initial_balance == 100
exchange_fee == Frac(1, 1000)      \* CryptoBacktester.fee
stop_loss_pct == Frac(2, 100)

\* the rows: candles with low <= open and low <= close, and the signal
Rows ==
    {row \in [open : {95, 100}, low : {90, 98, 100}, close : {100, 110}, signal : {0, 1}] :
        row.low <= row.open /\ row.low <= row.close}

NoPosition == [held |-> FALSE, entry_price |-> Zero, entry_time |-> 0]

\* an entry of self.trades; a BUY has no pnl, written 0
Trade(time, action, price, type, pnl) ==
    [time |-> time, action |-> action, price |-> price, type |-> type, pnl |-> pnl]

\* lines 47-65 for the row idx: whether the stop-loss was hit, and the object
\* and the locals (balance, position_size) after it
stop_loss(c, idx, row) ==
    LET stop_loss_price == RatMul(c.active_position.entry_price,
                                  RatSub(One, stop_loss_pct))
    IN  IF c.active_position.held /\ RatLe(R(row.low), stop_loss_price)
        THEN LET execute_price == RatMin(stop_loss_price, R(row.open))
             IN  [hit |-> TRUE,
                  cb |-> [c EXCEPT
                     !.balance = RatMul(RatMul(c.position_size, execute_price),
                                        RatSub(One, exchange_fee)),
                     !.trades = Append(@, Trade(idx, "SELL", execute_price, "stop-loss",
                                   RatDiv(RatSub(execute_price,
                                                 c.active_position.entry_price),
                                          c.active_position.entry_price))),
                     !.position_size = Zero,
                     !.active_position = NoPosition]]
        ELSE [hit |-> FALSE, cb |-> c]

\* lines 68-95 for the row idx
signal_logic(c, idx, row) ==
    IF row.signal = 1 /\ ~c.active_position.held
    THEN [c EXCEPT
            !.position_size = RatMul(RatDiv(c.balance, R(row.close)),
                                     RatSub(One, exchange_fee)),
            !.balance = Zero,
            !.active_position = [held |-> TRUE, entry_price |-> R(row.close),
                                 entry_time |-> idx],
            !.trades = Append(@, Trade(idx, "BUY", R(row.close), "entry", Zero))]
    ELSE IF row.signal = 0 /\ c.active_position.held
    THEN [c EXCEPT
            !.balance = RatMul(RatMul(c.position_size, R(row.close)),
                               RatSub(One, exchange_fee)),
            !.trades = Append(@, Trade(idx, "SELL", R(row.close), "signal-exit",
                          RatDiv(RatSub(R(row.close), c.active_position.entry_price),
                                 c.active_position.entry_price))),
            !.position_size = Zero,
            !.active_position = NoPosition]
    ELSE c

\* the body of the loop, lines 46-95: the stop-loss ends the pass ("continue")
loop_body_without_continue(c, idx, row) ==
    signal_logic(stop_loss(c, idx, row).cb, idx, row)

loop_body(c, idx, row) ==
    IF stop_loss(c, idx, row).hit
    THEN stop_loss(c, idx, row).cb
    ELSE signal_logic(c, idx, row)

CbInit ==
    /\ cb = [trades |-> <<>>, active_position |-> NoPosition,
             final_balance |-> R(initial_balance),
             balance |-> R(initial_balance), position_size |-> Zero,
             bars |-> 0, row |-> [open |-> 0, low |-> 0, close |-> 0, signal |-> 0],
             finished |-> FALSE]
    /\ pools = [k \in {} |-> Zero]
    /\ user_balances = [u \in {} |-> EmptyDict]
    /\ user_lp_positions = [u \in {} |-> EmptyDict]
    /\ last = [op |-> "init", err |-> "none", args |-> NoArgs]
    /\ ops = 0
    /\ reserves = <<>>
    /\ amm_call = <<>>
    /\ threads = <<>>
    /\ dexb = <<>>

\* one pass of the loop of line 45, over the next row of the data
NextRow(row) ==
    /\ ~cb.finished
    /\ cb.bars < MaxBars
    /\ cb' = [loop_body(cb, cb.bars + 1, row) EXCEPT !.bars = @ + 1, !.row = row]
    /\ UNCHANGED <<vars, reserves, amm_call, threads, dexb>>

\* the data has no more rows: line 98
FinalValue ==
    /\ ~cb.finished
    /\ cb.bars > 0
    /\ cb' = [cb EXCEPT
                !.finished = TRUE,
                !.final_balance =
                    RatAdd(cb.balance,
                           RatMul(RatMul(cb.position_size, R(cb.row.close)),
                                  RatSub(One, exchange_fee)))]
    /\ UNCHANGED <<vars, reserves, amm_call, threads, dexb>>

CbNext ==
    \/ \E row \in Rows : NextRow(row)
    \/ FinalValue

CbSpec == CbInit /\ [][CbNext]_cb

\* C19: in every state of run_backtest the trade log alternates BUY, SELL,
\* BUY, ... from a BUY; active_position is set exactly when the latest logged
\* trade is a BUY; and no BUY is logged for a bar on which the stop-loss sold.
C19_TradesAlternate ==
    /\ \A i \in DOMAIN cb.trades :
           cb.trades[i].action = IF i % 2 = 1 THEN "BUY" ELSE "SELL"
    /\ cb.active_position.held
       <=> (cb.trades # <<>> /\ cb.trades[Len(cb.trades)].action = "BUY")
    /\ \A i \in DOMAIN cb.trades, j \in DOMAIN cb.trades :
           (cb.trades[i].type = "stop-loss" /\ cb.trades[j].action = "BUY")
           => cb.trades[i].time # cb.trades[j].time

\* the stop-loss has just sold on a bar whose signal is 1, and a later bar
\* would buy again
C19_Witness ==
    /\ cb.trades # <<>>
    /\ cb.trades[Len(cb.trades)].type = "stop-loss"
    /\ cb.trades[Len(cb.trades)].time = cb.bars
    /\ cb.row.signal = 1
    /\ ~cb.finished

=============================================================================
